---- MODULE Spec2Model ----
(***************************************************************************)
(* PostgreSQL connection pool (storages::postgres::detail::                *)
(* ConnectionPoolImpl, src/unnamed/part_000).                              *)
(*                                                                         *)
(* The pool is a state machine over its shared fields (queue_, size_,      *)
(* wait_count_, wait_mutex_, recent_conn_errors_, stats_), the connections *)
(* it created, the Acquire calls in progress and the detached tasks        *)
(* (Connect, dirty-connection cleanup).  Callers and tasks are anonymous:  *)
(* they are kept as bags of records holding their position (pc) and their  *)
(* locals, which is the quotient of the per-thread model by the            *)
(* permutation of identical callers.  Every access to a shared field is a  *)
(* step of its own, so that the interleavings of threads are the           *)
(* behaviours of the model.                                                *)
(***************************************************************************)
EXTENDS Naturals, Integers, Sequences, FiniteSets, Bags, TLC

VARIABLES
    settings,            \* settings_: min_size, max_size, max_queue_size
    queue,               \* queue_: idle connections (ids), oldest first
    size,                \* *size_: the shared open-connection counter
    wait_count,          \* wait_count_
    wait_mutex,          \* wait_mutex_ is locked
    recent_conn_errors,  \* recent_conn_errors_: failures per epoch, newest first
    stats,               \* stats_: the cumulative counters
    conns,               \* connection objects by address: state and statistics
    callers,             \* bag of Acquire calls: position and locals
    tasks,               \* bag of detached tasks: Connect and cleanup
    topology,            \* topology_: hosts by role, as discovery last saw them
    host_pools,          \* host_pools_: the active map DSN -> pool
    host_ind,            \* host_ind_: the round-robin cursor, <<high, low>> half
    update_lock,         \* update_lock_ is set
    pools,               \* the ConnectionPool objects the cluster has built
    checks,              \* bag of CheckTopology calls in progress
    lookups,             \* bag of Begin / FindPool calls in progress
    installed,           \* history: the maps installed in host_pools_ so far
    selected,            \* history: the last selections made for one role
    pinger,              \* ping_task_: the position of a PingConnections run
    default_cmd_ctl,     \* the pool's default_cmd_ctl_: version and value
    cmd_ctl_writer,      \* a writer of the pool's default_cmd_ctl_ is open
    cluster_cmd_ctl,     \* the cluster's default_cmd_ctl_: version and value
    setters,             \* bag of SetDefaultCommandControl calls
    applied              \* the command control last given to a connection

poolVars == <<settings, queue, size, wait_count, wait_mutex, recent_conn_errors,
              stats, conns, callers, tasks>>

clusterVars == <<topology, host_pools, host_ind, update_lock, pools, checks,
                 lookups, installed, selected>>

pingVars == <<pinger>>

ctlVars == <<default_cmd_ctl, cmd_ctl_writer, cluster_cmd_ctl, setters, applied>>

vars == <<poolVars, clusterVars, pingVars, ctlVars>>

(***************************************************************************)
(* Program constants and bounds                                            *)
(***************************************************************************)
kRecentErrorThreshold == 2
kRecentErrorPeriod == 15

\* Pool settings of the general specification.
MinSize == 1
MaxSize == 2
MaxQueueSize == 1
\* Acquire calls made in one behaviour of the general specification.
MaxCalls == 3
\* Seconds per step of the clock of the error window.
EpochSeconds == 8

WindowEpochs == (kRecentErrorPeriod + EpochSeconds - 1) \div EpochSeconds

ConnStates == {"idle", "trx", "busy", "closed"}
ConnectOutcomes == {"ok", "timeout", "error", "fatal"}
CleanupOutcomes == {"idle", "busy", "throws"}

(***************************************************************************)
(* Helpers                                                                 *)
(***************************************************************************)
Replace(B, p, q) == (B (-) SetToBag({p})) (+) SetToBag({q})

Remove(B, p) == B (-) SetToBag({p})

Add(B, p) == B (+) SetToBag({p})

RECURSIVE SumSeq(_)
SumSeq(s) == IF s = <<>> THEN 0 ELSE Head(s) + SumSeq(Tail(s))

Bump(st, f) == [st EXCEPT ![f] = @ + 1]

\* The number of elements of bag B that are in T; calls by position.
RECURSIVE BagSum(_, _)
BagSum(B, T) ==
    IF T = {} THEN 0
    ELSE LET x == CHOOSE x \in T : TRUE
         IN  CopiesIn(x, B) + BagSum(B, T \ {x})

Count(pcs) == BagSum(callers, {p \in BagToSet(callers) : p.pc \in pcs})

\* A connection object is named by the slot (address) it occupies; delete
\* frees the slot and new takes the lowest free one.
FreeSlot == [state |-> "free", trx |-> 0]

NewSlot ==
    IF \E i \in 1..Len(conns) : conns[i] = FreeSlot
    THEN CHOOSE i \in 1..Len(conns) :
             /\ conns[i] = FreeSlot
             /\ \A j \in 1..(i - 1) : conns[j] # FreeSlot
    ELSE Len(conns) + 1

NewConnection(cs) ==
    IF NewSlot <= Len(cs) THEN [cs EXCEPT ![NewSlot] = [state |-> "idle", trx |-> 0]]
    ELSE Append(cs, [state |-> "idle", trx |-> 0])

\* Connection state queries.
IsIdle(c) == conns[c].state = "idle"
IsInTransaction(c) == conns[c].state = "trx"
IsConnected(c) == conns[c].state # "closed"

\* A caller entering Pop, and the Connect and cleanup tasks as spawned.
NewCaller(dl) ==
    [pc |-> "start", conn |-> 0, sg |-> 0, dl |-> dl, woken |-> FALSE, w0 |-> 0,
     ping |-> FALSE]

ConnectTask == [kind |-> "connect", conn |-> 0]

CleanupTask(c) == [kind |-> "cleanup", conn |-> c]

\* utils::SizeGuard: the counter after the guard's increment / decrement.
GuardInc(counter) == counter + 1

GuardDec(counter) == counter - 1

\* recent_conn_errors_.GetStatsForPeriod(kRecentErrorPeriod, true)
GetStatsForPeriod == SumSeq(recent_conn_errors)

\* ++recent_conn_errors_.GetCurrentCounter()
AccountRecentError == [recent_conn_errors EXCEPT ![1] = @ + 1]

\* conn_available_.NotifyOne(): the caller bags after waking one sleeping
\* waiter of B, if there is one.
Sleepers(B) == {p \in BagToSet(B) : p.pc = "sleeping" /\ ~p.woken}

NotifyOne(B) ==
    IF Sleepers(B) = {} THEN {B}
    ELSE {Replace(B, p, [p EXCEPT !.woken = TRUE]) : p \in Sleepers(B)}

\* queue_.push succeeds while the queue holds fewer than its capacity.
QueueHasRoom == Len(queue) < settings.max_size

(***************************************************************************)
(* Command control and the ping task                                       *)
(***************************************************************************)
\* CommandControl: the network and the statement timeout.  The two values
\* differ in both fields, so a value made of fields of both is neither.
CommandControl(n, st) == [network |-> n, statement |-> st]

DefaultCommandControl == CommandControl("n0", "s0")

CommandControls == {DefaultCommandControl, CommandControl("n1", "s1")}

\* A value as a reader of default_cmd_ctl_ finds it: the version published
\* and the value.
Published(v, cc) == [version |-> v, value |-> cc]

\* The ping task between two runs of PingConnections: dl, the deadline of
\* the run has passed; stale, the connection last probed had been idle for
\* kMaxIdleDuration or longer; ping, how its Ping() ended; runs and probes
\* count the runs made and the probes of the run.
PingTask ==
    [pc |-> "idle", dl |-> FALSE, stale |-> TRUE, ping |-> "ok", runs |-> 0,
     probes |-> 0]

\* Acquire: connection->SetDefaultCommandControl(*default_cmd_ctl_.Read()),
\* in the step in which Pop hands the connection over.
AcquireReturns == Count({"holding"})' > Count({"holding"})

ApplyCommandControl ==
    /\ applied' = IF AcquireReturns THEN default_cmd_ctl.value ELSE applied
    /\ UNCHANGED <<default_cmd_ctl, cmd_ctl_writer, cluster_cmd_ctl, setters>>

(***************************************************************************)
(* The cluster router: storages::postgres::detail::ClusterImpl             *)
(* (src/unnamed/part_001 declares it; its member functions are modelled    *)
(* from the specification).  A pool is seen by the router as an object     *)
(* with an identity, the DSN it serves and the connections checked out of  *)
(* it, each of which keeps the pool alive (Acquire's shared_this).         *)
(***************************************************************************)
\* CheckTopology calls in progress at a time, host-pool maps installed in
\* one behaviour, Begin calls made in one behaviour.
MaxChecks == 2
MaxMaps == 2
MaxLookups == 3

\* std::atomic<uint32_t> host_ind_, kept as two halves of 16 bits.
CursorHalf == 65536

DsnOrder == <<"M", "A", "B", "C">>

Range(f) == {f[x] : x \in DOMAIN f}

Roles == {"master", "slave"}

ClusterTopology(m, s) == [master |-> m, slave |-> s]

\* The cluster description names M, A and B; discovery has classified them.
ClusterDescription == <<"M", "A", "B">>

DescribedTopology == ClusterTopology(<<"M">>, <<"A", "B">>)

\* The classifications discovery can report.
Topologies ==
    {ClusterTopology(<<"M">>, <<"A", "B">>),
     ClusterTopology(<<"M">>, <<"B", "C">>),
     ClusterTopology(<<"M">>, <<"A", "B", "C">>)}

DiscoveryFailed == ClusterTopology(<<>>, <<>>)

HostsOf(t) == Range(t.master) \cup Range(t.slave)

EmptyMap == [d \in {} |-> 0]

\* ConnectionPool for one DSN, as the router holds it.
NewPool(d) == [dsn |-> d, handles |-> 0, alive |-> TRUE]

IndexOf(d, seq) == CHOOSE i \in 1..Len(seq) : seq[i] = d

\* The cursor after ++host_ind_, and its value modulo k.
CursorNext(c) ==
    IF c[2] + 1 < CursorHalf THEN <<c[1], c[2] + 1>>
    ELSE IF c[1] + 1 < CursorHalf THEN <<c[1] + 1, 0>>
    ELSE <<0, 0>>

CursorMod(c, k) == ((c[1] % k) * (CursorHalf % k) + (c[2] % k)) % k

\* Values of the cursor a cluster in use can have: fresh, and two
\* selections before it wraps around.
CursorStarts == {<<0, 0>>, <<CursorHalf - 1, CursorHalf - 3>>}

\* A CheckTopology call and a Begin call, as they start.
NewCheck == [pc |-> "test", found |-> DiscoveryFailed, map |-> EmptyMap]

NewLookup(role, n) ==
    [pc |-> "load", role |-> role, map |-> EmptyMap, dsn |-> "", pool |-> 0,
     epoch |-> n]

\* InitPools(dsn_list): one pool per DSN of the description, and the map.
InitPools(dsns) ==
    /\ pools = [i \in 1..Len(dsns) |-> NewPool(dsns[i])]
    /\ host_pools = [d \in Range(dsns) |-> IndexOf(d, dsns)]
    /\ installed = <<[d \in Range(dsns) |-> IndexOf(d, dsns)]>>

\* ClusterImpl(cluster_desc, ...), the cursor being at start.
ClusterImpl(start) ==
    /\ topology = DescribedTopology
    /\ InitPools(ClusterDescription)
    /\ host_ind = start
    /\ update_lock = FALSE
    /\ checks = EmptyBag
    /\ lookups = EmptyBag
    /\ selected = <<>>
    /\ cluster_cmd_ctl = Published(0, DefaultCommandControl)
    /\ setters = EmptyBag

(***************************************************************************)
(* Construction: ConnectionPoolImpl::Create = constructor + Init().        *)
(* Init() builds one SharedSizeGuard per pre-warm connection and detaches  *)
(* a Connect task for each: when Create returns, size_ is min_size and     *)
(* min_size Connect tasks are in flight.                                   *)
(***************************************************************************)
Copies(x, n) == IF n = 0 THEN EmptyBag ELSE [e \in {x} |-> n]

ZeroStats ==
    [open_total |-> 0, drop_total |-> 0, error_total |-> 0, error_timeout |-> 0,
     queue_size_errors |-> 0, pool_exhaust_errors |-> 0, used |-> 0,
     trx_total |-> 0]

\* Init without its loop over min_size: no pre-warm task is started.
CreateWithoutPrewarm(s, calls) ==
    /\ s.min_size <= s.max_size
    /\ settings = s
    /\ queue = <<>>
    /\ size = 0
    /\ wait_count = 0
    /\ wait_mutex = FALSE
    /\ recent_conn_errors = [i \in 1..WindowEpochs |-> 0]
    /\ stats = ZeroStats
    /\ conns = <<>>
    /\ callers = calls
    /\ tasks = EmptyBag
    /\ pinger = PingTask
    /\ default_cmd_ctl = Published(0, DefaultCommandControl)
    /\ cmd_ctl_writer = FALSE
    /\ applied = DefaultCommandControl

Create(s, calls) ==
    /\ s.min_size <= s.max_size
    /\ settings = s
    /\ queue = <<>>
    /\ size = s.min_size
    /\ wait_count = 0
    /\ wait_mutex = FALSE
    /\ recent_conn_errors = [i \in 1..WindowEpochs |-> 0]
    /\ stats = ZeroStats
    /\ conns = <<>>
    /\ callers = calls
    /\ tasks = Copies(ConnectTask, s.min_size)
    /\ pinger = PingTask
    /\ default_cmd_ctl = Published(0, DefaultCommandControl)
    /\ cmd_ctl_writer = FALSE
    /\ applied = DefaultCommandControl

PoolSettings ==
    [min_size |-> MinSize, max_size |-> MaxSize, max_queue_size |-> MaxQueueSize]

Init ==
    /\ Create(PoolSettings, EmptyBag)
    /\ ClusterImpl(<<0, 0>>)

(***************************************************************************)
(* DeleteConnection and Push                                               *)
(***************************************************************************)
\* DeleteConnection without ++drop_total.
DeleteConnectionUncounted(c, cs, st) ==
    /\ conns' = [cs EXCEPT ![c] = FreeSlot]
    /\ size' = GuardDec(size)
    /\ stats' = st

\* DeleteConnection(connection), on connections cs and counters st: the
\* connection's size guard goes with it.
DeleteConnection(c, cs, st) ==
    /\ conns' = [cs EXCEPT ![c] = FreeSlot]
    /\ size' = GuardDec(size)
    /\ stats' = Bump(st, "drop_total")

\* Push(connection), on connections cs, callers B and counters st.
Push(c, cs, B, st) ==
    IF QueueHasRoom
    THEN /\ queue' = Append(queue, c)
         /\ callers' \in NotifyOne(B)
         /\ conns' = cs
         /\ stats' = st
         /\ UNCHANGED size
    ELSE /\ DeleteConnection(c, cs, st)
         /\ callers' = B
         /\ UNCHANGED queue

(***************************************************************************)
(* Acquire -> Pop                                                          *)
(***************************************************************************)
\* A caller calls Acquire(deadline); dl: the deadline has already passed.
AcquireCall(dl) ==
    /\ BagCardinality(callers) < MaxCalls
    /\ callers' = Add(callers, [NewCaller(dl) EXCEPT !.w0 = wait_count])
    /\ UNCHANGED <<settings, queue, size, wait_count, wait_mutex,
                   recent_conn_errors, stats, conns, tasks>>

\* Pop without its deadline check.
PopDeadlineSkipped(p) ==
    /\ p.pc = "start"
    /\ callers' = Replace(callers, p, [p EXCEPT !.pc = "try_pop"])
    /\ UNCHANGED <<settings, queue, size, wait_count, wait_mutex,
                   recent_conn_errors, stats, conns, tasks>>

\* Pop: if (deadline.IsReached()) { ++error_timeout; throw PoolError }
PopDeadline(p) ==
    /\ p.pc = "start"
    /\ IF p.dl
       THEN /\ stats' = Bump(stats, "error_timeout")
            /\ callers' = Replace(callers, p, [p EXCEPT !.pc = "failed_deadline"])
       ELSE /\ callers' = Replace(callers, p, [p EXCEPT !.pc = "try_pop"])
            /\ UNCHANGED stats
    /\ UNCHANGED <<settings, queue, size, wait_count, wait_mutex,
                   recent_conn_errors, conns, tasks>>

\* Pop: if (queue_.pop(connection)) return connection;  Acquire then counts
\* the connection as used.
PopQueue(p) ==
    /\ p.pc = "try_pop"
    /\ IF queue # <<>>
       THEN /\ queue' = Tail(queue)
            /\ callers' = Replace(callers, p,
                            [p EXCEPT !.pc = "holding", !.conn = Head(queue)])
            /\ stats' = Bump(stats, "used")
       ELSE /\ callers' = Replace(callers, p, [p EXCEPT !.pc = "wait_guard"])
            /\ UNCHANGED <<queue, stats>>
    /\ UNCHANGED <<settings, size, wait_count, wait_mutex, recent_conn_errors,
                   conns, tasks>>

\* Pop comparing wg.GetValue() >= max_queue_size.
PopWaitGuardOffByOne(p) ==
    /\ p.pc = "wait_guard"
    /\ wait_count' = GuardInc(wait_count)
    /\ IF wait_count' >= settings.max_queue_size
       THEN /\ stats' = Bump(stats, "queue_size_errors")
            /\ callers' = Replace(callers, p, [p EXCEPT !.pc = "throw_queue"])
       ELSE /\ callers' = Replace(callers, p, [p EXCEPT !.pc = "size_guard"])
            /\ UNCHANGED stats
    /\ UNCHANGED <<settings, queue, size, wait_mutex, recent_conn_errors,
                   conns, tasks>>

\* Pop: SizeGuard wg(wait_count_); if (wg.GetValue() > max_queue_size)
\* { ++queue_size_errors; throw ... }
PopWaitGuard(p) ==
    /\ p.pc = "wait_guard"
    /\ wait_count' = GuardInc(wait_count)
    /\ IF wait_count' > settings.max_queue_size
       THEN /\ stats' = Bump(stats, "queue_size_errors")
            /\ callers' = Replace(callers, p, [p EXCEPT !.pc = "throw_queue"])
       ELSE /\ callers' = Replace(callers, p, [p EXCEPT !.pc = "size_guard"])
            /\ UNCHANGED stats
    /\ UNCHANGED <<settings, queue, size, wait_mutex, recent_conn_errors,
                   conns, tasks>>

\* Pop throwing "Wait queue size exceeded" with wg left behind: the
\* counter keeps the failed call.
PopThrowQueueKeepsGuard(p) ==
    /\ p.pc = "throw_queue"
    /\ callers' = Replace(callers, p, [p EXCEPT !.pc = "failed_queue"])
    /\ UNCHANGED <<settings, queue, size, wait_count, wait_mutex,
                   recent_conn_errors, stats, conns, tasks>>

\* Pop: throw PoolError("Wait queue size exceeded") unwinds wg.
PopThrowQueue(p) ==
    /\ p.pc = "throw_queue"
    /\ wait_count' = GuardDec(wait_count)
    /\ callers' = Replace(callers, p, [p EXCEPT !.pc = "failed_queue"])
    /\ UNCHANGED <<settings, queue, size, wait_mutex, recent_conn_errors,
                   stats, conns, tasks>>

\* Pop: SharedSizeGuard sg(size_);
PopSizeGuard(p) ==
    /\ p.pc = "size_guard"
    /\ size' = GuardInc(size)
    /\ callers' = Replace(callers, p, [p EXCEPT !.pc = "check_size", !.sg = size'])
    /\ UNCHANGED <<settings, queue, wait_count, wait_mutex, recent_conn_errors,
                   stats, conns, tasks>>

\* Pop without the comparison of the counter with max_size.
MayConnectUnbounded(p) == GetStatsForPeriod < kRecentErrorThreshold

\* Pop without the check of the recent connection errors.
MayConnectNoBreaker(p) == p.sg <= settings.max_size

\* Pop: the decision to start a Connect task.
MayConnect(p) ==
    /\ p.sg <= settings.max_size
    /\ GetStatsForPeriod < kRecentErrorThreshold

\* Pop keeping sg when it starts no Connect task: the guard is never
\* given back.
PopCheckSizeKeepsGuard(p) ==
    /\ p.pc = "check_size"
    /\ IF MayConnect(p)
       THEN tasks' = Add(tasks, ConnectTask)
       ELSE UNCHANGED tasks
    /\ callers' = Replace(callers, p, [p EXCEPT !.pc = "wait_pred", !.sg = 0])
    /\ UNCHANGED <<settings, queue, size, wait_count, wait_mutex,
                   recent_conn_errors, stats, conns>>

\* Pop: if (sg.GetValue() <= max_size) { if (errors < threshold)
\* Connect(std::move(sg)).Detach(); }  and the end of sg's block.
PopCheckSize(p) ==
    /\ p.pc = "check_size"
    /\ IF MayConnect(p)
       THEN /\ tasks' = Add(tasks, ConnectTask)
            /\ UNCHANGED size
       ELSE /\ size' = GuardDec(size)
            /\ UNCHANGED tasks
    /\ callers' = Replace(callers, p, [p EXCEPT !.pc = "wait_pred", !.sg = 0])
    /\ UNCHANGED <<settings, queue, wait_count, wait_mutex, recent_conn_errors,
                   stats, conns>>

\* Pop: lock wait_mutex_; WaitUntil evaluates the predicate queue_.pop first.
WaitPredicate(p) ==
    /\ p.pc = "wait_pred"
    /\ ~wait_mutex
    /\ IF queue # <<>>
       THEN /\ queue' = Tail(queue)
            /\ callers' = Replace(callers, p,
                            [p EXCEPT !.pc = "unwind_ok", !.conn = Head(queue)])
            /\ UNCHANGED wait_mutex
       ELSE /\ wait_mutex' = TRUE
            /\ callers' = Replace(callers, p, [p EXCEPT !.pc = "wait_sleep"])
            /\ UNCHANGED queue
    /\ UNCHANGED <<settings, size, wait_count, recent_conn_errors, stats,
                   conns, tasks>>

\* WaitUntil: the predicate was false; unlock and sleep.
WaitSleep(p) ==
    /\ p.pc = "wait_sleep"
    /\ wait_mutex' = FALSE
    /\ callers' = Replace(callers, p, [p EXCEPT !.pc = "sleeping", !.woken = FALSE])
    /\ UNCHANGED <<settings, queue, size, wait_count, recent_conn_errors,
                   stats, conns, tasks>>

\* The caller's deadline elapses while it sleeps.
DeadlineElapse(p) ==
    /\ p.pc = "sleeping"
    /\ ~p.dl
    /\ callers' = Replace(callers, p, [p EXCEPT !.dl = TRUE])
    /\ UNCHANGED <<settings, queue, size, wait_count, wait_mutex,
                   recent_conn_errors, stats, conns, tasks>>

\* WaitUntil without its deadline: only NotifyOne ends the sleep.
WaitWakeIgnoresDeadline(p) ==
    /\ p.pc = "sleeping"
    /\ p.woken
    /\ ~wait_mutex
    /\ IF queue # <<>>
       THEN /\ queue' = Tail(queue)
            /\ callers' = Replace(callers, p,
                 [p EXCEPT !.pc = "unwind_ok", !.conn = Head(queue), !.woken = FALSE])
            /\ UNCHANGED wait_mutex
       ELSE /\ wait_mutex' = TRUE
            /\ callers' = Replace(callers, p,
                 [p EXCEPT !.pc = "wait_sleep", !.woken = FALSE])
            /\ UNCHANGED queue
    /\ UNCHANGED <<settings, size, wait_count, recent_conn_errors, stats,
                   conns, tasks>>

\* WaitUntil: woken by NotifyOne or by the deadline; lock and evaluate the
\* predicate again; on timeout its value is the result.
WaitWake(p) ==
    /\ p.pc = "sleeping"
    /\ p.woken \/ p.dl
    /\ ~wait_mutex
    /\ IF queue # <<>>
       THEN /\ queue' = Tail(queue)
            /\ callers' = Replace(callers, p,
                 [p EXCEPT !.pc = "unwind_ok", !.conn = Head(queue), !.woken = FALSE])
            /\ UNCHANGED wait_mutex
       ELSE IF p.dl
       THEN /\ callers' = Replace(callers, p,
                 [p EXCEPT !.pc = "throw_exhaust", !.woken = FALSE])
            /\ UNCHANGED <<queue, wait_mutex>>
       ELSE /\ wait_mutex' = TRUE
            /\ callers' = Replace(callers, p,
                 [p EXCEPT !.pc = "wait_sleep", !.woken = FALSE])
            /\ UNCHANGED queue
    /\ UNCHANGED <<settings, size, wait_count, recent_conn_errors, stats,
                   conns, tasks>>

\* Pop returns the connection popped in the wait (wg unwinds); Acquire
\* counts it as used.
PopReturn(p) ==
    /\ p.pc = "unwind_ok"
    /\ wait_count' = GuardDec(wait_count)
    /\ stats' = Bump(stats, "used")
    /\ callers' = Replace(callers, p, [p EXCEPT !.pc = "holding"])
    /\ UNCHANGED <<settings, queue, size, wait_mutex, recent_conn_errors,
                   conns, tasks>>

\* Pop: ++pool_exhaust_errors; throw PoolError("No available connections
\* found") unwinds wg.
PopThrowExhausted(p) ==
    /\ p.pc = "throw_exhaust"
    /\ stats' = Bump(stats, "pool_exhaust_errors")
    /\ wait_count' = GuardDec(wait_count)
    /\ callers' = Replace(callers, p, [p EXCEPT !.pc = "failed_exhausted"])
    /\ UNCHANGED <<settings, queue, size, wait_mutex, recent_conn_errors,
                   conns, tasks>>

(***************************************************************************)
(* Release and the dirty-connection cleanup task                           *)
(***************************************************************************)
\* AccountConnectionStats(connection->GetStatsAndReset()), on counters st.
AccountConnectionStats(c, cs, st) ==
    [st EXCEPT !.trx_total = @ + cs[c].trx]

GetStatsAndReset(c, cs) == [cs EXCEPT ![c].trx = 0]

\* Release without the return after Push: an idle connection is pushed and
\* also handed to the cleanup task.
ReleaseFallsThrough(p, s) ==
    LET c == p.conn
        used == [conns EXCEPT ![c] = [state |-> s, trx |-> @.trx + 1]]
        inTrx == s = "trx"
        cs == IF inTrx THEN used ELSE GetStatsAndReset(c, used)
        st == IF inTrx THEN stats ELSE AccountConnectionStats(c, used, stats)
        dec == [st EXCEPT !.used = @ - 1]
        B == Replace(callers, p, [p EXCEPT !.pc = "released", !.conn = 0])
    IN  /\ p.pc = "holding"
        /\ IF s = "idle"
           THEN /\ Push(c, cs, B, st)
                /\ tasks' = Add(tasks, CleanupTask(c))
           ELSE IF s = "closed"
           THEN /\ DeleteConnection(c, cs, Bump(dec, "error_total"))
                /\ callers' = B
                /\ UNCHANGED <<queue, tasks>>
           ELSE /\ tasks' = Add(tasks, CleanupTask(c))
                /\ conns' = cs
                /\ stats' = st
                /\ callers' = B
                /\ UNCHANGED <<queue, size>>
        /\ UNCHANGED <<settings, wait_count, wait_mutex, recent_conn_errors>>

\* The caller hands its connection back after one transaction, leaving the
\* connection in state s; Release(connection).
Release(p, s) ==
    LET c == p.conn
        used == [conns EXCEPT ![c] = [state |-> s, trx |-> @.trx + 1]]
        inTrx == s = "trx"
        cs == IF inTrx THEN used ELSE GetStatsAndReset(c, used)
        st == IF inTrx THEN stats ELSE AccountConnectionStats(c, used, stats)
        dec == [st EXCEPT !.used = @ - 1]
        B == Replace(callers, p, [p EXCEPT !.pc = "released", !.conn = 0])
    IN  /\ p.pc = "holding"
        /\ IF s = "idle"
           THEN /\ Push(c, cs, B, dec)
                /\ UNCHANGED tasks
           ELSE IF s = "closed"
           THEN /\ DeleteConnection(c, cs, Bump(dec, "error_total"))
                /\ callers' = B
                /\ UNCHANGED <<queue, tasks>>
           ELSE /\ tasks' = Add(tasks, CleanupTask(c))
                /\ conns' = cs
                /\ stats' = st
                /\ callers' = B
                /\ UNCHANGED <<queue, size>>
        /\ UNCHANGED <<settings, wait_count, wait_mutex, recent_conn_errors>>

\* The cleanup task without ++error_total on its failure path.
CleanupUncounted(t, o) ==
    LET c == t.conn
        dec == [stats EXCEPT !.used = @ - 1]
    IN  /\ t.kind = "cleanup"
        /\ tasks' = Remove(tasks, t)
        /\ IF o = "idle"
           THEN Push(c, GetStatsAndReset(c, [conns EXCEPT ![c].state = "idle"]),
                     callers, AccountConnectionStats(c, conns, dec))
           ELSE /\ DeleteConnection(c, conns, dec)
                /\ UNCHANGED <<queue, callers>>
        /\ UNCHANGED <<settings, wait_count, wait_mutex, recent_conn_errors>>

\* The cleanup task: connection->Cleanup(...) leaves the connection idle
\* (o = "idle"), leaves it busy, or throws.
Cleanup(t, o) ==
    LET c == t.conn
        dec == [stats EXCEPT !.used = @ - 1]
    IN  /\ t.kind = "cleanup"
        /\ tasks' = Remove(tasks, t)
        /\ IF o = "idle"
           THEN Push(c, GetStatsAndReset(c, [conns EXCEPT ![c].state = "idle"]),
                     callers, AccountConnectionStats(c, conns, dec))
           ELSE /\ DeleteConnection(c, conns, Bump(dec, "error_total"))
                /\ UNCHANGED <<queue, callers>>
        /\ UNCHANGED <<settings, wait_count, wait_mutex, recent_conn_errors>>

(***************************************************************************)
(* The Connect task                                                        *)
(***************************************************************************)
\* Connect with the size guard left in the task instead of moved into the
\* connection: the guard is given back when the task ends, also on success.
ConnectDropsGuard(t, o) ==
    LET opened == Bump(stats, "open_total")
        failed == Bump(Bump(opened, "error_total"), "drop_total")
    IN  /\ t.kind = "connect"
        /\ tasks' = Remove(tasks, t)
        /\ size' = GuardDec(size)
        /\ IF o = "ok"
           THEN /\ queue' = Append(queue, NewSlot)
                /\ callers' \in NotifyOne(callers)
                /\ conns' = NewConnection(conns)
                /\ stats' = opened
                /\ UNCHANGED recent_conn_errors
           ELSE /\ stats' = IF o = "timeout" THEN Bump(failed, "error_timeout")
                            ELSE failed
                /\ recent_conn_errors' =
                       IF o \in {"timeout", "error"} THEN AccountRecentError
                       ELSE recent_conn_errors
                /\ UNCHANGED <<queue, conns, callers>>
        /\ UNCHANGED <<settings, wait_count, wait_mutex>>

\* Connect without ++recent_conn_errors_.GetCurrentCounter() in its catch
\* blocks.
ConnectForgetsWindow(t, o) ==
    LET opened == Bump(stats, "open_total")
        failed == Bump(Bump(opened, "error_total"), "drop_total")
    IN  /\ t.kind = "connect"
        /\ tasks' = Remove(tasks, t)
        /\ IF o = "ok"
           THEN /\ Push(NewSlot, NewConnection(conns), callers, opened)
                /\ UNCHANGED recent_conn_errors
           ELSE /\ size' = GuardDec(size)
                /\ stats' = IF o = "timeout" THEN Bump(failed, "error_timeout")
                            ELSE failed
                /\ UNCHANGED <<recent_conn_errors, queue, conns, callers>>
        /\ UNCHANGED <<settings, wait_count, wait_mutex>>

\* Connect whose guard is lost with the failed attempt: a failing outcome
\* does not give the capacity back.
ConnectKeepsGuardOnError(t, o) ==
    LET opened == Bump(stats, "open_total")
        failed == Bump(Bump(opened, "error_total"), "drop_total")
    IN  /\ t.kind = "connect"
        /\ tasks' = Remove(tasks, t)
        /\ IF o = "ok"
           THEN /\ Push(NewSlot, NewConnection(conns), callers, opened)
                /\ UNCHANGED recent_conn_errors
           ELSE /\ stats' = IF o = "timeout" THEN Bump(failed, "error_timeout")
                            ELSE failed
                /\ recent_conn_errors' =
                       IF o \in {"timeout", "error"} THEN AccountRecentError
                       ELSE recent_conn_errors
                /\ UNCHANGED <<size, queue, conns, callers>>
        /\ UNCHANGED <<settings, wait_count, wait_mutex>>

\* The Connect task: ++open_total; Connection::Connect(..., std::move(sg))
\* returns a connection (o = "ok"), which is pushed, or throws
\* ConnectionTimeoutError, ConnectionError or another Error; a failed
\* attempt gives its guard back.
Connect(t, o) ==
    LET opened == Bump(stats, "open_total")
        failed == Bump(Bump(opened, "error_total"), "drop_total")
    IN  /\ t.kind = "connect"
        /\ tasks' = Remove(tasks, t)
        /\ IF o = "ok"
           THEN /\ Push(NewSlot, NewConnection(conns), callers, opened)
                /\ UNCHANGED recent_conn_errors
           ELSE /\ size' = GuardDec(size)
                /\ stats' = IF o = "timeout" THEN Bump(failed, "error_timeout")
                            ELSE failed
                /\ recent_conn_errors' =
                       IF o \in {"timeout", "error"} THEN AccountRecentError
                       ELSE recent_conn_errors
                /\ UNCHANGED <<queue, conns, callers>>
        /\ UNCHANGED <<settings, wait_count, wait_mutex>>

\* One epoch passes: the oldest epoch leaves the trailing error window.
Tick ==
    /\ GetStatsForPeriod > 0
    /\ recent_conn_errors' = <<0>> \o SubSeq(recent_conn_errors, 1, WindowEpochs - 1)
    /\ UNCHANGED <<settings, queue, size, wait_count, wait_mutex, stats,
                   conns, callers, tasks>>

(***************************************************************************)
(* The general specification: any number of calls up to MaxCalls, any      *)
(* outcome of connects and cleanups.                                       *)
(***************************************************************************)
\* Each step, taken by any of the calls and tasks in progress.
PopDeadlineStep ==
    /\ \E p \in BagToSet(callers) : PopDeadline(p)
    /\ UNCHANGED <<clusterVars, pingVars, ctlVars>>

PopQueueStep ==
    /\ \E p \in BagToSet(callers) : PopQueue(p)
    /\ ApplyCommandControl
    /\ UNCHANGED <<clusterVars, pingVars>>

PopWaitGuardStep ==
    /\ \E p \in BagToSet(callers) : PopWaitGuard(p)
    /\ UNCHANGED <<clusterVars, pingVars, ctlVars>>

PopThrowQueueStep ==
    /\ \E p \in BagToSet(callers) : PopThrowQueue(p)
    /\ UNCHANGED <<clusterVars, pingVars, ctlVars>>

PopSizeGuardStep ==
    /\ \E p \in BagToSet(callers) : PopSizeGuard(p)
    /\ UNCHANGED <<clusterVars, pingVars, ctlVars>>

PopCheckSizeStep ==
    /\ \E p \in BagToSet(callers) : PopCheckSize(p)
    /\ UNCHANGED <<clusterVars, pingVars, ctlVars>>

WaitPredicateStep ==
    /\ \E p \in BagToSet(callers) : WaitPredicate(p)
    /\ UNCHANGED <<clusterVars, pingVars, ctlVars>>

WaitSleepStep ==
    /\ \E p \in BagToSet(callers) : WaitSleep(p)
    /\ UNCHANGED <<clusterVars, pingVars, ctlVars>>

WaitWakeStep ==
    /\ \E p \in BagToSet(callers) : WaitWake(p)
    /\ UNCHANGED <<clusterVars, pingVars, ctlVars>>

PopReturnStep ==
    /\ \E p \in BagToSet(callers) : PopReturn(p)
    /\ ApplyCommandControl
    /\ UNCHANGED <<clusterVars, pingVars>>

PopThrowExhaustedStep ==
    /\ \E p \in BagToSet(callers) : PopThrowExhausted(p)
    /\ UNCHANGED <<clusterVars, pingVars, ctlVars>>

DeadlineElapseStep ==
    /\ \E p \in BagToSet(callers) : DeadlineElapse(p)
    /\ UNCHANGED <<clusterVars, pingVars, ctlVars>>

ReleaseStep ==
    /\ \E p \in BagToSet(callers), s \in ConnStates : Release(p, s)
    /\ UNCHANGED <<clusterVars, pingVars, ctlVars>>

ConnectStep ==
    /\ \E t \in BagToSet(tasks), o \in ConnectOutcomes : Connect(t, o)
    /\ UNCHANGED <<clusterVars, pingVars, ctlVars>>

CleanupStep ==
    /\ \E t \in BagToSet(tasks), o \in CleanupOutcomes : Cleanup(t, o)
    /\ UNCHANGED <<clusterVars, pingVars, ctlVars>>

AcquireStep ==
    /\ \E dl \in BOOLEAN : AcquireCall(dl)
    /\ UNCHANGED <<clusterVars, pingVars, ctlVars>>

TickStep == Tick /\ UNCHANGED <<clusterVars, pingVars, ctlVars>>

PopStep ==
    \/ PopDeadlineStep
    \/ PopQueueStep
    \/ PopWaitGuardStep
    \/ PopThrowQueueStep
    \/ PopSizeGuardStep
    \/ PopCheckSizeStep
    \/ WaitPredicateStep
    \/ WaitSleepStep
    \/ WaitWakeStep
    \/ PopReturnStep
    \/ PopThrowExhaustedStep

Next ==
    \/ AcquireStep
    \/ PopStep
    \/ DeadlineElapseStep
    \/ ReleaseStep
    \/ ConnectStep
    \/ CleanupStep
    \/ TickStep

Spec == Init /\ [][Next]_vars

(***************************************************************************)
(* The scenarios: a pool with min_size = 2, max_size = 5,                  *)
(* max_queue_size = 3 on a healthy backend (every connect succeeds), n     *)
(* concurrent Acquire calls that have passed Pop's deadline check, and no  *)
(* Release.  A deadline elapses only when no Connect task is in flight any *)
(* more.                                                                   *)
(***************************************************************************)
ScenarioSettings == [min_size |-> 2, max_size |-> 5, max_queue_size |-> 3]

DeadlineAfterConnectsStep ==
    /\ tasks = EmptyBag
    /\ DeadlineElapseStep

HealthyConnectStep ==
    /\ \E t \in BagToSet(tasks) : Connect(t, "ok")
    /\ UNCHANGED <<clusterVars, pingVars, ctlVars>>

ScenarioNext ==
    \/ PopQueueStep
    \/ PopWaitGuardStep
    \/ PopThrowQueueStep
    \/ PopSizeGuardStep
    \/ PopCheckSizeStep
    \/ WaitPredicateStep
    \/ WaitSleepStep
    \/ WaitWakeStep
    \/ PopReturnStep
    \/ PopThrowExhaustedStep
    \/ DeadlineAfterConnectsStep
    \/ HealthyConnectStep

EnteredCaller == [NewCaller(FALSE) EXCEPT !.pc = "try_pop"]

Init5 ==
    /\ Create(ScenarioSettings, Copies(EnteredCaller, 5))
    /\ ClusterImpl(<<0, 0>>)

Spec5 == Init5 /\ [][ScenarioNext]_vars

Init9 ==
    /\ Create(ScenarioSettings, Copies(EnteredCaller, 9))
    /\ ClusterImpl(<<0, 0>>)

Spec9 == Init9 /\ [][ScenarioNext]_vars

(***************************************************************************)
(* A pool whose wait queue admits two calls at a time, so that two calls   *)
(* are inside the blocks of wg and sg together, with every step of the     *)
(* general specification.                                                  *)
(***************************************************************************)
RaceSettings == [min_size |-> 0, max_size |-> 2, max_queue_size |-> 2]

InitRace ==
    /\ Create(RaceSettings, EmptyBag)
    /\ ClusterImpl(<<0, 0>>)

SpecRace == InitRace /\ [][Next]_vars

\* Calls by outcome.
WaitingPcs == {"size_guard", "check_size", "wait_pred", "wait_sleep", "sleeping"}
InPopPcs ==
    {"start", "try_pop", "wait_guard", "throw_queue", "unwind_ok",
     "throw_exhaust"} \cup WaitingPcs

Succeeded == Count({"holding", "released"})
QueueExceeded == Count({"failed_queue"})
PoolExhausted == Count({"failed_exhausted"})
DeadlineFailed == Count({"failed_deadline"})
InProgress == Count(InPopPcs)

\* Every call has returned and no task is left.
Quiescent == InProgress = 0 /\ tasks = EmptyBag

(***************************************************************************)
(* Fairness: the task processor runs every call and every detached task    *)
(* that can take a step, and time advances, so the deadline of a sleeping  *)
(* call elapses.                                                           *)
(***************************************************************************)
Fairness ==
    /\ WF_vars(PopStep)
    /\ WF_vars(DeadlineElapseStep)
    /\ WF_vars(ConnectStep)
    /\ WF_vars(CleanupStep)

FairSpec == Spec /\ Fairness

(***************************************************************************)
(* CheckTopology: the periodic task and explicit triggers call it; the     *)
(* test-and-set flag update_lock_ lets one call at a time into the body:   *)
(* discovery, the new map, the swap, and the release of the flag.          *)
(***************************************************************************)
Running == {ch \in BagToSet(checks) : ch.pc # "test"}

\* A call of CheckTopology begins.
CheckTopologyCall ==
    /\ BagCardinality(checks) < MaxChecks
    /\ checks' = Add(checks, NewCheck)
    /\ UNCHANGED <<topology, host_pools, host_ind, update_lock, pools, lookups,
                   installed, selected>>

\* CheckTopology entering its body whatever the flag is.
TestAndSetIgnored(ch) ==
    /\ ch.pc = "test"
    /\ update_lock' = TRUE
    /\ checks' = Replace(checks, ch, [ch EXCEPT !.pc = "discover"])
    /\ UNCHANGED <<topology, host_pools, host_ind, pools, lookups, installed,
                   selected>>

\* if (update_lock_.test_and_set()) return;
TestAndSet(ch) ==
    /\ ch.pc = "test"
    /\ IF update_lock
       THEN /\ checks' = Remove(checks, ch)
            /\ UNCHANGED update_lock
       ELSE /\ update_lock' = TRUE
            /\ checks' = Replace(checks, ch, [ch EXCEPT !.pc = "discover"])
    /\ UNCHANGED <<topology, host_pools, host_ind, pools, lookups, installed,
                   selected>>

\* Discovery reports the classification found, or fails; a report that
\* differs from the current snapshot replaces it.
Discover(ch, found) ==
    /\ ch.pc = "discover"
    /\ IF found = DiscoveryFailed \/ found = topology
       THEN /\ checks' = Replace(checks, ch, [ch EXCEPT !.pc = "clear"])
            /\ UNCHANGED <<topology, selected>>
       ELSE /\ Len(installed) < MaxMaps
            /\ topology' = found
            /\ selected' = <<>>
            /\ checks' = Replace(checks, ch,
                                 [ch EXCEPT !.pc = "build", !.found = found])
    /\ UNCHANGED <<host_pools, host_ind, update_lock, pools, lookups, installed>>

\* The DSNs of hosts H that have no pool in the active map, in DSN order.
NewHosts(H) ==
    LET Fresh(d) == d \in H /\ d \notin DOMAIN host_pools
    IN  SelectSeq(DsnOrder, Fresh)

\* The map for hosts H: the pools of the active map for the hosts it has,
\* pools built now for the others.
BuiltMap(H) ==
    [d \in H |-> IF d \in DOMAIN host_pools THEN host_pools[d]
                 ELSE Len(pools) + IndexOf(d, NewHosts(H))]

BuiltPools(H) ==
    pools \o [i \in 1..Len(NewHosts(H)) |-> NewPool(NewHosts(H)[i])]

\* CheckTopology adding the pools of new hosts to the active map itself
\* before it installs the new map.
BuildInPlace(ch) ==
    LET H == HostsOf(ch.found)
    IN  /\ ch.pc = "build"
        /\ pools' = BuiltPools(H)
        /\ host_pools' = [d \in H \cup DOMAIN host_pools |->
                              IF d \in DOMAIN host_pools THEN host_pools[d]
                              ELSE BuiltMap(H)[d]]
        /\ checks' = Replace(checks, ch,
                             [ch EXCEPT !.pc = "swap", !.map = BuiltMap(H)])
        /\ UNCHANGED <<topology, host_ind, update_lock, lookups, installed,
                       selected>>

\* CheckTopology builds the new map, apart from the active one.
Build(ch) ==
    LET H == HostsOf(ch.found)
    IN  /\ ch.pc = "build"
        /\ pools' = BuiltPools(H)
        /\ checks' = Replace(checks, ch,
                             [ch EXCEPT !.pc = "swap", !.map = BuiltMap(H)])
        /\ UNCHANGED <<topology, host_pools, host_ind, update_lock, lookups,
                       installed, selected>>

\* host_pools_.Set(new map): the swap.
Swap(ch) ==
    /\ ch.pc = "swap"
    /\ host_pools' = ch.map
    /\ installed' = Append(installed, ch.map)
    /\ checks' = Replace(checks, ch, [ch EXCEPT !.pc = "clear", !.map = EmptyMap])
    /\ UNCHANGED <<topology, host_ind, update_lock, pools, lookups, selected>>

\* update_lock_.clear(); CheckTopology returns.
Clear(ch) ==
    /\ ch.pc = "clear"
    /\ update_lock' = FALSE
    /\ checks' = Remove(checks, ch)
    /\ UNCHANGED <<topology, host_pools, host_ind, pools, lookups, installed,
                   selected>>

(***************************************************************************)
(* Begin(host type, ...): FindPool, then Acquire on the pool found; the    *)
(* transaction gives the connection back later.                            *)
(***************************************************************************)
\* A caller calls Begin for a role.
Begin(role) ==
    /\ BagCardinality(lookups) < MaxLookups
    /\ lookups' = Add(lookups, NewLookup(role, Len(installed)))
    /\ UNCHANGED <<topology, host_pools, host_ind, update_lock, pools, checks,
                   installed, selected>>

\* FindPool: the one load of the active map.
FindPoolLoad(l) ==
    /\ l.pc = "load"
    /\ lookups' = Replace(lookups, l, [l EXCEPT !.pc = "select", !.map = host_pools])
    /\ UNCHANGED <<topology, host_pools, host_ind, update_lock, pools, checks,
                   installed, selected>>

\* The index the cursor gives among k candidates, modulo one too few.
CursorIndexShort(c, k) == IF k > 1 THEN CursorMod(c, k - 1) ELSE 0

\* The index the cursor gives among k candidates.
CursorIndex(c, k) == CursorMod(c, k)

\* The last n elements of a sequence.
LastN(seq, n) ==
    IF Len(seq) <= n THEN seq ELSE SubSeq(seq, Len(seq) - n + 1, Len(seq))

\* FindPool: the candidates of the role in the topology; ++host_ind_ and
\* the candidate at its value modulo their number.
FindPoolSelect(l) ==
    LET hosts == topology[l.role]
        k == Len(hosts)
        ind == CursorNext(host_ind)
        dsn == hosts[CursorIndex(ind, k) + 1]
    IN  /\ l.pc = "select"
        /\ IF k = 0
           THEN /\ lookups' = Replace(lookups, l, [l EXCEPT !.pc = "unavailable"])
                /\ UNCHANGED <<host_ind, selected>>
           ELSE /\ host_ind' = ind
                /\ lookups' = Replace(lookups, l,
                                [l EXCEPT !.pc = "get", !.dsn = dsn])
                /\ selected' =
                       IF l.role = "slave"
                       THEN LastN(Append(selected, [dsn |-> dsn, ind |-> ind]),
                                  Len(DsnOrder))
                       ELSE selected
        /\ UNCHANGED <<topology, host_pools, update_lock, pools, checks, installed>>

\* GetPool(dsn): the pool of the DSN in the map loaded, if it has one.
GetPool(l) ==
    /\ l.pc = "get"
    /\ lookups' = Replace(lookups, l,
                    IF l.dsn \in DOMAIN l.map
                    THEN [l EXCEPT !.pc = "found", !.pool = l.map[l.dsn]]
                    ELSE [l EXCEPT !.pc = "unavailable", !.map = EmptyMap])
    /\ UNCHANGED <<topology, host_pools, host_ind, update_lock, pools, checks,
                   installed, selected>>

\* pool->Acquire: the connection handed out holds the pool (shared_this).
BeginAcquire(l) ==
    /\ l.pc = "found"
    /\ pools' = [pools EXCEPT ![l.pool].handles = @ + 1]
    /\ lookups' = Replace(lookups, l, [l EXCEPT !.pc = "bound", !.map = EmptyMap])
    /\ UNCHANGED <<topology, host_pools, host_ind, update_lock, checks, installed,
                   selected>>

\* The transaction ends: its connection goes back to its pool.
EndTransaction(l) ==
    /\ l.pc = "bound"
    /\ pools' = [pools EXCEPT ![l.pool].handles = @ - 1]
    /\ lookups' = Replace(lookups, l, [NewLookup(l.role, 0) EXCEPT !.pc = "done"])
    /\ UNCHANGED <<topology, host_pools, host_ind, update_lock, checks, installed,
                   selected>>

(***************************************************************************)
(* The end of a pool: the last shared pointer to it is gone.               *)
(***************************************************************************)
\* Connections that do not hold their pool.
HeldByConnectionsIgnored(i) == FALSE

\* Pool i is held by a connection handed out (Acquire's shared_this).
HeldByConnections(i) == pools[i].handles > 0

\* Pool i is held by a map (active, being built, or loaded by a reader) or
\* by the result of a lookup.
HeldByMaps(i) ==
    \/ i \in Range(host_pools)
    \/ \E ch \in BagToSet(checks) : i \in Range(ch.map)
    \/ \E l \in BagToSet(lookups) : i \in Range(l.map) \/ (l.pc = "found" /\ l.pool = i)

\* ~ConnectionPoolImpl
Teardown(i) ==
    /\ pools[i].alive
    /\ ~HeldByMaps(i)
    /\ ~HeldByConnections(i)
    /\ pools' = [pools EXCEPT ![i].alive = FALSE]
    /\ UNCHANGED <<topology, host_pools, host_ind, update_lock, checks, lookups,
                   installed, selected>>

(***************************************************************************)
(* The specification of the cluster: any discovery results, any            *)
(* interleaving of checks and Begin calls.                                 *)
(***************************************************************************)
CheckTopologyCallStep == CheckTopologyCall /\ UNCHANGED <<poolVars, pingVars, ctlVars>>

TestAndSetStep ==
    /\ \E ch \in BagToSet(checks) : TestAndSet(ch)
    /\ UNCHANGED <<poolVars, pingVars, ctlVars>>

DiscoverStep ==
    /\ \E ch \in BagToSet(checks), found \in Topologies \cup {DiscoveryFailed} :
           Discover(ch, found)
    /\ UNCHANGED <<poolVars, pingVars, ctlVars>>

BuildStep ==
    /\ \E ch \in BagToSet(checks) : Build(ch)
    /\ UNCHANGED <<poolVars, pingVars, ctlVars>>

SwapStep ==
    /\ \E ch \in BagToSet(checks) : Swap(ch)
    /\ UNCHANGED <<poolVars, pingVars, ctlVars>>

ClearStep ==
    /\ \E ch \in BagToSet(checks) : Clear(ch)
    /\ UNCHANGED <<poolVars, pingVars, ctlVars>>

BeginStep ==
    /\ \E role \in Roles : Begin(role)
    /\ UNCHANGED <<poolVars, pingVars, ctlVars>>

FindPoolLoadStep ==
    /\ \E l \in BagToSet(lookups) : FindPoolLoad(l)
    /\ UNCHANGED <<poolVars, pingVars, ctlVars>>

FindPoolSelectStep ==
    /\ \E l \in BagToSet(lookups) : FindPoolSelect(l)
    /\ UNCHANGED <<poolVars, pingVars, ctlVars>>

GetPoolStep ==
    /\ \E l \in BagToSet(lookups) : GetPool(l)
    /\ UNCHANGED <<poolVars, pingVars, ctlVars>>

BeginAcquireStep ==
    /\ \E l \in BagToSet(lookups) : BeginAcquire(l)
    /\ UNCHANGED <<poolVars, pingVars, ctlVars>>

EndTransactionStep ==
    /\ \E l \in BagToSet(lookups) : EndTransaction(l)
    /\ UNCHANGED <<poolVars, pingVars, ctlVars>>

TeardownStep ==
    /\ \E i \in 1..Len(pools) : Teardown(i)
    /\ UNCHANGED <<poolVars, pingVars, ctlVars>>

ClusterNext ==
    \/ CheckTopologyCallStep
    \/ TestAndSetStep
    \/ DiscoverStep
    \/ BuildStep
    \/ SwapStep
    \/ ClearStep
    \/ BeginStep
    \/ FindPoolLoadStep
    \/ FindPoolSelectStep
    \/ GetPoolStep
    \/ BeginAcquireStep
    \/ EndTransactionStep
    \/ TeardownStep

InitCluster ==
    /\ Create(PoolSettings, EmptyBag)
    /\ \E start \in CursorStarts : ClusterImpl(start)

SpecCluster == InitCluster /\ [][ClusterNext]_vars

(***************************************************************************)
(* The scenario of one refresh: discovery, when it answers, reports that   *)
(* the replicas, {A, B} so far, are {B, C}.                                *)
(***************************************************************************)
RefreshedTopology == ClusterTopology(<<"M">>, <<"B", "C">>)

DiscoverRefreshStep ==
    /\ \E ch \in BagToSet(checks), found \in {RefreshedTopology, DiscoveryFailed} :
           Discover(ch, found)
    /\ UNCHANGED <<poolVars, pingVars, ctlVars>>

RefreshNext ==
    \/ CheckTopologyCallStep
    \/ TestAndSetStep
    \/ DiscoverRefreshStep
    \/ BuildStep
    \/ SwapStep
    \/ ClearStep
    \/ BeginStep
    \/ FindPoolLoadStep
    \/ FindPoolSelectStep
    \/ GetPoolStep
    \/ BeginAcquireStep
    \/ EndTransactionStep
    \/ TeardownStep

InitRefresh ==
    /\ Create(PoolSettings, EmptyBag)
    /\ ClusterImpl(<<0, 0>>)

SpecRefresh == InitRefresh /\ [][RefreshNext]_vars

(***************************************************************************)
(* SetDefaultCommandControl.  The pool's (part_000) opens a writer on      *)
(* default_cmd_ctl_, which holds a private copy of the current value, and  *)
(* commits the copy only if it assigned a different value to it; writers   *)
(* are serialised (rcu::Variable, modelled from the specification: readers *)
(* take a whole published value, a writer publishes with one store).  The  *)
(* cluster's is modelled from the specification: compare with the current  *)
(* value, return if it is identical, else swap and call every pool's.      *)
(***************************************************************************)
\* SetDefaultCommandControl calls made in one behaviour.
MaxSets == 3

SetLevels == {"cluster", "pool"}

NewSetter(level, cc) ==
    [level |-> level, pc |-> IF level = "cluster" THEN "compare" ELSE "start_write",
     value |-> cc, copy |-> DefaultCommandControl]

\* A caller (the component, on a configuration update) calls
\* SetDefaultCommandControl(cc) of the cluster or of the pool.
SetDefaultCommandControlCall(level, cc) ==
    /\ BagCardinality(setters) < MaxSets
    /\ setters' = Add(setters, NewSetter(level, cc))
    /\ UNCHANGED <<default_cmd_ctl, cmd_ctl_writer, cluster_cmd_ctl, applied>>

\* ClusterImpl::SetDefaultCommandControl: the comparison with the current
\* value; an identical value ends the call.
ClusterCompare(s) ==
    /\ s.level = "cluster"
    /\ s.pc = "compare"
    /\ setters' = Replace(setters, s,
                     [s EXCEPT !.pc = IF cluster_cmd_ctl.value = s.value
                                      THEN "done" ELSE "swap"])
    /\ UNCHANGED <<default_cmd_ctl, cmd_ctl_writer, cluster_cmd_ctl, applied>>

\* ClusterImpl::SetDefaultCommandControl: the swap, and the broadcast: the
\* call of the pool's SetDefaultCommandControl.
ClusterSwap(s) ==
    /\ s.level = "cluster"
    /\ s.pc = "swap"
    /\ cluster_cmd_ctl' = Published(cluster_cmd_ctl.version + 1, s.value)
    /\ setters' = Replace(setters, s, [s EXCEPT !.pc = "start_write"])
    /\ UNCHANGED <<default_cmd_ctl, cmd_ctl_writer, applied>>

\* auto writer = default_cmd_ctl_.StartWrite();
StartWrite(s) ==
    /\ s.pc = "start_write"
    /\ ~cmd_ctl_writer
    /\ cmd_ctl_writer' = TRUE
    /\ setters' = Replace(setters, s,
                     [s EXCEPT !.pc = "commit", !.copy = default_cmd_ctl.value])
    /\ UNCHANGED <<default_cmd_ctl, cluster_cmd_ctl, applied>>

\* SetDefaultCommandControl committing whatever the writer holds.
SetDefaultCommandControlAlways(s) ==
    /\ s.pc = "commit"
    /\ default_cmd_ctl' = Published(default_cmd_ctl.version + 1, s.value)
    /\ cmd_ctl_writer' = FALSE
    /\ setters' = Replace(setters, s, [s EXCEPT !.pc = "done"])
    /\ UNCHANGED <<cluster_cmd_ctl, applied>>

\* if (*writer != cmd_ctl) { *writer = cmd_ctl; writer.Commit(); } and the
\* end of the writer.
SetDefaultCommandControl(s) ==
    /\ s.pc = "commit"
    /\ default_cmd_ctl' =
           IF s.copy # s.value
           THEN Published(default_cmd_ctl.version + 1, s.value)
           ELSE default_cmd_ctl
    /\ cmd_ctl_writer' = FALSE
    /\ setters' = Replace(setters, s, [s EXCEPT !.pc = "done"])
    /\ UNCHANGED <<cluster_cmd_ctl, applied>>

SetDefaultCommandControlCallStep ==
    /\ \E level \in SetLevels, cc \in CommandControls :
           SetDefaultCommandControlCall(level, cc)
    /\ UNCHANGED <<poolVars, clusterVars, pingVars>>

ClusterCompareStep ==
    /\ \E s \in BagToSet(setters) : ClusterCompare(s)
    /\ UNCHANGED <<poolVars, clusterVars, pingVars>>

ClusterSwapStep ==
    /\ \E s \in BagToSet(setters) : ClusterSwap(s)
    /\ UNCHANGED <<poolVars, clusterVars, pingVars>>

StartWriteStep ==
    /\ \E s \in BagToSet(setters) : StartWrite(s)
    /\ UNCHANGED <<poolVars, clusterVars, pingVars>>

SetDefaultCommandControlStep ==
    /\ \E s \in BagToSet(setters) : SetDefaultCommandControl(s)
    /\ UNCHANGED <<poolVars, clusterVars, pingVars>>

\* Two Acquire calls on a healthy backend, each giving its connection back
\* idle, while the command control is set.
ReleaseIdleStep ==
    /\ \E p \in BagToSet(callers) : Release(p, "idle")
    /\ UNCHANGED <<clusterVars, pingVars, ctlVars>>

CommandControlNext ==
    \/ SetDefaultCommandControlCallStep
    \/ ClusterCompareStep
    \/ ClusterSwapStep
    \/ StartWriteStep
    \/ SetDefaultCommandControlStep
    \/ PopQueueStep
    \/ PopWaitGuardStep
    \/ PopThrowQueueStep
    \/ PopSizeGuardStep
    \/ PopCheckSizeStep
    \/ WaitPredicateStep
    \/ WaitSleepStep
    \/ WaitWakeStep
    \/ PopReturnStep
    \/ HealthyConnectStep
    \/ ReleaseIdleStep

InitCommandControl ==
    /\ Create(PoolSettings, Copies(EnteredCaller, 2))
    /\ ClusterImpl(<<0, 0>>)

SpecCommandControl == InitCommandControl /\ [][CommandControlNext]_vars

(***************************************************************************)
(* PingConnections, run by the periodic ping task.  Its Acquire calls are  *)
(* calls like any other (ping = TRUE marks them); they share the deadline  *)
(* computed before the loop.                                               *)
(***************************************************************************)
\* Acquire calls of users made in one behaviour next to the ping task,
\* runs of PingConnections in one behaviour, and probes that fit into the
\* network timeout of one run: after that many the deadline has passed.
MaxUserCalls == 1
MaxRuns == 1
MaxProbes == 2

PingOutcomes == {"ok", "throws"}

PingEndedPcs == {"idle", "skipped", "done", "failed"}

PingRunning == pinger.pc \notin PingEndedPcs

PingCalls == {p \in BagToSet(callers) : p.ping}

UserCalls == {p \in BagToSet(callers) : ~p.ping}

\* The periodic task calls PingConnections.
PingConnectionsCall ==
    /\ ~PingRunning
    /\ pinger.runs < MaxRuns
    /\ pinger' = [PingTask EXCEPT !.pc = "check", !.runs = pinger.runs + 1]
    /\ UNCHANGED poolVars

\* PingConnections going on to probe whatever wait_count_ is.
PingCheckWaitersIgnored ==
    /\ pinger.pc = "check"
    /\ pinger' = [pinger EXCEPT !.pc = "acquire"]
    /\ UNCHANGED poolVars

\* if (wait_count_ > 0) return;  else the deadline of the run is set.
PingCheckWaiters ==
    /\ pinger.pc = "check"
    /\ pinger' = [pinger EXCEPT !.pc = IF wait_count > 0 THEN "skipped"
                                        ELSE "acquire"]
    /\ UNCHANGED poolVars

\* auto conn = Acquire(deadline);
PingAcquire ==
    /\ pinger.pc = "acquire"
    /\ pinger.dl \/ pinger.probes < MaxProbes
    /\ callers' = Add(callers, [NewCaller(pinger.dl) EXCEPT !.ping = TRUE,
                                                            !.w0 = wait_count])
    /\ pinger' = [pinger EXCEPT !.pc = "acquiring"]
    /\ UNCHANGED <<settings, queue, size, wait_count, wait_mutex,
                   recent_conn_errors, stats, conns, tasks>>

\* Acquire throws: the error leaves PingConnections.
PingAcquireThrows(p) ==
    /\ pinger.pc = "acquiring"
    /\ p.ping
    /\ p.pc \in {"failed_deadline", "failed_queue", "failed_exhausted"}
    /\ callers' = Remove(callers, p)
    /\ pinger' = [pinger EXCEPT !.pc = "failed", !.dl = @ \/ p.dl]
    /\ UNCHANGED <<settings, queue, size, wait_count, wait_mutex,
                   recent_conn_errors, stats, conns, tasks>>

\* stale_connection = conn->GetIdleDuration() >= kMaxIdleDuration;
\* conn->Ping(), whose RuntimeError is caught and logged.
PingProbe(p, stale, o) ==
    /\ pinger.pc = "acquiring"
    /\ p.ping
    /\ p.pc = "holding"
    /\ pinger' = [pinger EXCEPT !.pc = "probed", !.dl = @ \/ p.dl,
                                !.stale = stale, !.ping = o,
                                !.probes = IF @ < MaxProbes THEN @ + 1 ELSE @]
    /\ UNCHANGED poolVars

\* The end of the loop body: conn goes out of scope and is released, idle
\* after a Ping that returned, in any state after one that threw.
PingRelease(p, s) ==
    /\ pinger.pc = "probed"
    /\ p.ping
    /\ pinger.ping = "ok" => s = "idle"
    /\ Release(p, s)
    /\ pinger' = [pinger EXCEPT !.pc = "loop"]

\* while (stale_connection)
PingLoop ==
    /\ pinger.pc = "loop"
    /\ callers' = [p \in UserCalls |-> callers[p]]
    /\ pinger' = [pinger EXCEPT !.pc = IF pinger.stale THEN "acquire" ELSE "done"]
    /\ UNCHANGED <<settings, queue, size, wait_count, wait_mutex,
                   recent_conn_errors, stats, conns, tasks>>

\* Time passes the deadline of the run, which is the deadline of its
\* Acquire call in progress.
PingDeadlineElapse ==
    /\ PingRunning
    /\ ~pinger.dl
    /\ pinger' = [pinger EXCEPT !.dl = TRUE]
    /\ callers' = [p \in BagToSet(callers) \ PingCalls |-> callers[p]]
                      (+) SetToBag({[p EXCEPT !.dl = TRUE] : p \in PingCalls})
    /\ UNCHANGED <<settings, queue, size, wait_count, wait_mutex,
                   recent_conn_errors, stats, conns, tasks>>

PingConnectionsCallStep ==
    /\ PingConnectionsCall
    /\ UNCHANGED <<clusterVars, ctlVars>>

PingCheckWaitersStep ==
    /\ PingCheckWaiters
    /\ UNCHANGED <<clusterVars, ctlVars>>

PingAcquireStep ==
    /\ PingAcquire
    /\ UNCHANGED <<clusterVars, ctlVars>>

PingAcquireThrowsStep ==
    /\ \E p \in PingCalls : PingAcquireThrows(p)
    /\ UNCHANGED <<clusterVars, ctlVars>>

PingProbeStep ==
    /\ \E p \in PingCalls, stale \in BOOLEAN, o \in PingOutcomes :
           PingProbe(p, stale, o)
    /\ UNCHANGED <<clusterVars, ctlVars>>

PingReleaseStep ==
    /\ \E p \in PingCalls, s \in {"idle", "busy", "closed"} : PingRelease(p, s)
    /\ UNCHANGED <<clusterVars, ctlVars>>

PingLoopStep ==
    /\ PingLoop
    /\ UNCHANGED <<clusterVars, ctlVars>>

PingDeadlineElapseStep ==
    /\ PingDeadlineElapse
    /\ UNCHANGED <<clusterVars, ctlVars>>

\* The steps of a run.
PingStep ==
    \/ PingCheckWaitersStep
    \/ PingAcquireStep
    \/ PingAcquireThrowsStep
    \/ PingProbeStep
    \/ PingReleaseStep
    \/ PingLoopStep

\* Users next to the ping task: one Acquire call, released in any state.
UserAcquireStep ==
    /\ BagSum(callers, UserCalls) < MaxUserCalls
    /\ \E dl \in BOOLEAN :
           /\ callers' = Add(callers, [NewCaller(dl) EXCEPT !.w0 = wait_count])
           /\ UNCHANGED <<settings, queue, size, wait_count, wait_mutex,
                          recent_conn_errors, stats, conns, tasks>>
    /\ UNCHANGED <<clusterVars, pingVars, ctlVars>>

UserReleaseStep ==
    /\ \E p \in UserCalls, s \in ConnStates : Release(p, s)
    /\ UNCHANGED <<clusterVars, pingVars, ctlVars>>

PingNext ==
    \/ PingConnectionsCallStep
    \/ PingStep
    \/ PingDeadlineElapseStep
    \/ UserAcquireStep
    \/ UserReleaseStep
    \/ PopStep
    \/ DeadlineElapseStep
    \/ HealthyConnectStep
    \/ CleanupStep

\* A pool of one connection, so that the run meets an empty idle queue
\* when a user holds the connection.
PingSettings == [min_size |-> 1, max_size |-> 1, max_queue_size |-> 1]

InitPing ==
    /\ Create(PingSettings, EmptyBag)
    /\ ClusterImpl(<<0, 0>>)

SpecPing == InitPing /\ [][PingNext]_vars

\* The task processor runs the calls, the tasks and the run that can take
\* a step, and time passes every deadline.
PingFairness ==
    /\ WF_vars(PingStep)
    /\ WF_vars(PingDeadlineElapseStep)
    /\ WF_vars(PopStep)
    /\ WF_vars(DeadlineElapseStep)
    /\ WF_vars(HealthyConnectStep)
    /\ WF_vars(CleanupStep)

FairSpecPing == SpecPing /\ PingFairness

(***************************************************************************)
(* Properties                                                              *)
(***************************************************************************)

\* C1: the open-connection counter, which GetStatistics reports as
\* 'active', is never greater than max_size.
C1_SizeNeverAboveMax == size <= settings.max_size

\* Owners of connection c: entries of the idle queue, calls holding it and
\* tasks holding it.
OwnerCount(c) ==
    Cardinality({i \in 1..Len(queue) : queue[i] = c})
    + BagSum(callers, {p \in BagToSet(callers) : p.conn = c})
    + BagSum(tasks, {t \in BagToSet(tasks) : t.conn = c})

\* C2: every existing connection has exactly one owner among the idle
\* queue, the calls and the tasks, and a deleted one has none: no
\* connection is returned to two calls, none is both queued and held.
C2_ExclusiveOwner ==
    \A c \in 1..Len(conns) :
        OwnerCount(c) = IF conns[c] = FreeSlot THEN 0 ELSE 1

\* A call holds one connection while a cleanup task holds another.
C2_Witness ==
    /\ Count({"holding"}) = 1
    /\ \E t \in BagToSet(tasks) : t.kind = "cleanup"

\* Connections that exist.
Live == {c \in 1..Len(conns) : conns[c] # FreeSlot}

\* C7 as stated: the 5 calls all return a connection and the pool ends with
\* 5 open connections and nobody waiting.
C7_AllFiveSucceed ==
    Quiescent => Succeeded = 5 /\ size = 5 /\ wait_count = 0

\* C7, amended: each of the 5 calls returns; at most 2 of them fail (with
\* queue-exceeded, or with pool-exhausted at their deadline) and at least 3
\* get a connection; when all have returned nobody is counted as waiting
\* and the open-connection counter is the number of connections handed out
\* plus those left idle, at most 5.
C7_FiveCalls ==
    /\ Succeeded + QueueExceeded + PoolExhausted + InProgress = 5
    /\ QueueExceeded + PoolExhausted <= 2
    /\ Quiescent =>
           /\ wait_count = 0
           /\ Succeeded >= 3
           /\ size = Succeeded + Len(queue)
           /\ size <= 5

\* All 5 calls hold a connection, 5 connections are open, nobody waits.
C7_Witness == Quiescent /\ Succeeded = 5 /\ size = 5 /\ wait_count = 0

\* C8 as stated: of the 9 calls exactly 5 succeed, exactly 3 fail with
\* queue-exceeded and exactly 1 with pool-exhausted.
C8_FiveThreeOne ==
    Quiescent => Succeeded = 5 /\ QueueExceeded = 3 /\ PoolExhausted = 1

\* C8, amended: each of the 9 calls returns a connection or fails with
\* queue-exceeded or pool-exhausted; never more than 5 connections exist
\* or are handed out; when all calls have returned at least 3 and at most
\* 5 hold a connection, at most 6 have failed with queue-exceeded and at
\* most 5 with pool-exhausted, 5 connections are open and nobody waits.
C8_NineCalls ==
    /\ Succeeded + QueueExceeded + PoolExhausted + InProgress = 9
    /\ Cardinality(Live) <= 5
    /\ Succeeded <= 5
    /\ Quiescent =>
           /\ Succeeded >= 3
           /\ QueueExceeded <= 6
           /\ PoolExhausted <= 5
           /\ size = 5
           /\ wait_count = 0

\* The outcome of the scenario as stated: 5 succeed, 3 queue-exceeded, 1
\* pool-exhausted.
C8_Witness ==
    Quiescent /\ Succeeded = 5 /\ QueueExceeded = 3 /\ PoolExhausted = 1

\* C9: the idle queue never holds more connections than the
\* open-connection counter counts.
C9_QueueWithinSize == Len(queue) <= size

\* Every open connection is idle in the queue, the pool being full.
C9_Witness == Len(queue) = size /\ size = settings.max_size

C4_FailsWheneverCounterExceeds ==
    \A p \in BagToSet(callers) :
        p.w0 > settings.max_queue_size =>
            p.pc \in {"start", "try_pop", "wait_guard", "throw_queue",
                      "failed_queue", "failed_deadline"}

QueueFailPcs == {"throw_queue", "failed_queue"}

\* C4, amended: a call that finds an idle connection is served whatever
\* the counter is; a call that misses the idle queue and whose own
\* increment raises wait_count above max_queue_size fails with
\* queue-exceeded at once: it is counted in queue_size_errors, starts no
\* Connect task, takes no capacity, never waits and never gets a
\* connection; any other call passes the check.
C4_QueueExceededOnMiss ==
    [][/\ (Count({"try_pop"})' < Count({"try_pop"}) /\ queue # <<>>) =>
              Count({"holding"})' = Count({"holding"}) + 1
       /\ Count({"wait_guard"})' < Count({"wait_guard"}) =>
              IF wait_count >= settings.max_queue_size
              THEN /\ Count(QueueFailPcs)' = Count(QueueFailPcs) + 1
                   /\ stats'.queue_size_errors = stats.queue_size_errors + 1
                   /\ UNCHANGED <<tasks, size, queue>>
              ELSE /\ Count(QueueFailPcs)' = Count(QueueFailPcs)
                   /\ Count({"size_guard"})' = Count({"size_guard"}) + 1
       /\ Count({"throw_queue"})' < Count({"throw_queue"}) =>
              /\ QueueExceeded' = QueueExceeded + 1
              /\ wait_count' = wait_count - 1
              /\ UNCHANGED <<tasks, size, queue>>]_vars

\* A call has failed with queue-exceeded and an idle connection is in the
\* queue.
C4_Witness == QueueExceeded > 0 /\ queue # <<>>

\* Calls entering Pop with their deadline already passed.
ElapsedAtStart ==
    BagSum(callers, {p \in BagToSet(callers) : p.pc = "start" /\ p.dl})

\* C5: an Acquire call whose deadline has already passed fails at once,
\* counts one timeout error and changes nothing else: not the idle queue,
\* the counters of waiters and of open connections, nor the tasks.
C5_ElapsedDeadlineFails ==
    [][ElapsedAtStart' < ElapsedAtStart =>
           /\ DeadlineFailed' = DeadlineFailed + 1
           /\ stats' = [stats EXCEPT !.error_timeout = @ + 1]
           /\ UNCHANGED <<queue, size, wait_count, wait_mutex, tasks, conns,
                          recent_conn_errors>>]_vars

\* A call has failed on its deadline before trying to get a connection.
C5_Witness == DeadlineFailed > 0 /\ stats.error_timeout > 0

\* C6: while the trailing window holds kRecentErrorThreshold or more
\* recoverable connection failures no Connect task is started, capacity or
\* not; a call that passes the capacity check when the window holds fewer
\* starts one.
C6_CircuitBreaker ==
    [][/\ CopiesIn(ConnectTask, tasks') > CopiesIn(ConnectTask, tasks) =>
              GetStatsForPeriod < kRecentErrorThreshold
       /\ \A p \in BagToSet(callers) :
              (/\ p.pc = "check_size"
               /\ callers' = Replace(callers, p, [p EXCEPT !.pc = "wait_pred", !.sg = 0])
               /\ p.sg <= settings.max_size) =>
                  IF GetStatsForPeriod < kRecentErrorThreshold
                  THEN tasks' = Add(tasks, ConnectTask) /\ size' = size
                  ELSE tasks' = tasks /\ size' = size - 1]_vars

\* The window holds two failures, the pool has capacity, a call waits and
\* no Connect task is in flight.
C6_Witness ==
    /\ GetStatsForPeriod >= kRecentErrorThreshold
    /\ size < settings.max_size
    /\ Count({"wait_pred", "wait_sleep", "sleeping"}) > 0
    /\ CopiesIn(ConnectTask, tasks) = 0

FailedPcs ==
    {"throw_queue", "failed_queue", "throw_exhaust", "failed_exhausted",
     "failed_deadline"}

\* C10: releasing a connected, non-idle connection returns at once and
\* leaves the connection to a cleanup task; the task either puts the
\* connection, idle and with its statistics folded into the pool's, back
\* into the idle queue, or destroys it, with the open-connection counter
\* one lower and error_total one higher; no call fails by it.
C10_DirtyRelease ==
    [][/\ \A p \in BagToSet(callers) :
              (p.pc = "holding" /\ tasks' = Add(tasks, CleanupTask(p.conn))) =>
                  /\ callers' = Replace(callers, p,
                                        [p EXCEPT !.pc = "released", !.conn = 0])
                  /\ conns'[p.conn].state \in {"trx", "busy"}
                  /\ UNCHANGED <<queue, size>>
       /\ \A t \in BagToSet(tasks) :
              (t.kind = "cleanup" /\ tasks' = Remove(tasks, t)) =>
                  /\ Count(FailedPcs)' = Count(FailedPcs)
                  /\ \/ /\ conns'[t.conn] = [state |-> "idle", trx |-> 0]
                        /\ queue' = Append(queue, t.conn)
                        /\ stats'.trx_total = stats.trx_total + conns[t.conn].trx
                        /\ stats'.error_total = stats.error_total
                        /\ size' = size
                     \/ /\ conns'[t.conn] = FreeSlot
                        /\ queue' = queue
                        /\ stats'.error_total = stats.error_total + 1
                        /\ size' = size - 1]_vars

\* A cleanup task holds a connection released inside a transaction.
C10_Witness ==
    \E t \in BagToSet(tasks) :
        t.kind = "cleanup" /\ conns[t.conn].state = "trx" /\ conns[t.conn].trx > 0

\* Positions of a call inside the wait of Pop.
InWaitPcs == {"wait_pred", "wait_sleep", "sleeping"}

\* C11: a Connect task that ends with a timeout or a connection error
\* changes no call: it counts the failure in the error window and in
\* error_total and drop_total (a timeout also in error_timeout), gives its
\* capacity back and is gone; a call leaves the wait of Pop only with a
\* connection popped from the idle queue or, its deadline elapsed, on the
\* way to the pool-exhausted error.
C11_RecoverableFailureAbsorbed ==
    [][/\ \A t \in BagToSet(tasks), o \in {"timeout", "error"} :
              Connect(t, o) =>
                  /\ callers' = callers
                  /\ recent_conn_errors' = AccountRecentError
                  /\ stats'.error_total = stats.error_total + 1
                  /\ stats'.drop_total = stats.drop_total + 1
                  /\ stats'.error_timeout =
                         stats.error_timeout + (IF o = "timeout" THEN 1 ELSE 0)
                  /\ tasks' = Remove(tasks, t)
                  /\ UNCHANGED <<queue, conns, wait_count>>
       /\ Count(InWaitPcs)' < Count(InWaitPcs) =>
              \/ /\ Count({"unwind_ok"})' = Count({"unwind_ok"}) + 1
                 /\ Len(queue') = Len(queue) - 1
              \/ /\ Count({"throw_exhaust"})' = Count({"throw_exhaust"}) + 1
                 /\ \E p \in BagToSet(callers) : p.pc = "sleeping" /\ p.dl]_vars

\* A recoverable failure is in the error window, no Connect task is left
\* and a call that waited through it has failed with pool-exhausted.
C11_Witness ==
    /\ recent_conn_errors[1] > 0
    /\ tasks = EmptyBag
    /\ PoolExhausted > 0
    /\ Len(conns) = 0

\* C12: a Connect task that ends with a non-recoverable error makes a call
\* (the one that started the attempt) fail, and leaves the error window as
\* it is.
C12_FatalReachesCaller ==
    [][\A t \in BagToSet(tasks) :
           Connect(t, "fatal") =>
               /\ Count(FailedPcs)' = Count(FailedPcs) + 1
               /\ recent_conn_errors' = recent_conn_errors]_vars

\* C13 as stated: once every call made has failed at its deadline and no
\* task is left, the open-connection counter is what the pre-warm tasks
\* alone can make it, at most min_size.
C13_NoCapacityAfterTimeout ==
    (/\ PoolExhausted > 0
     /\ PoolExhausted = BagCardinality(callers)
     /\ tasks = EmptyBag) => size <= settings.min_size

\* C13, amended: a call that failed at its deadline owns no connection and
\* no guard on the open-connection counter; the counter counts the
\* existing connections, the Connect tasks in flight (also those started by
\* calls that have failed since) and the guards of calls inside the block
\* of sg, and nothing else.
C13_TimedOutCallHoldsNothing ==
    /\ \A p \in BagToSet(callers) :
           p.pc \in {"throw_exhaust", "failed_exhausted"} =>
               p.conn = 0 /\ p.sg = 0
    /\ size = Cardinality(Live) + CopiesIn(ConnectTask, tasks)
                  + Count({"check_size"})

\* Every call made has failed at its deadline, and a connection created by
\* a Connect task that a failed call started is open and idle.
C13_Witness ==
    /\ PoolExhausted > 0
    /\ PoolExhausted = BagCardinality(callers)
    /\ tasks = EmptyBag
    /\ size > settings.min_size
    /\ Len(queue) = size

\* C18: a Connect task that ends with a timeout, a connection error or a
\* non-recoverable error gives back the capacity its guard reserved (the
\* counter goes down by one, no connection appears); one that succeeds
\* leaves the counter as it is, the reservation now being the new
\* connection's; the counter goes down by one with each connection
\* destroyed, and is always the number of existing connections plus the
\* reservations of attempts in progress.
C18_GuardFollowsAttempt ==
    /\ [](size = Cardinality(Live) + CopiesIn(ConnectTask, tasks)
                     + Count({"check_size"}))
    /\ [][/\ \A t \in BagToSet(tasks), o \in ConnectOutcomes \ {"ok"} :
                 Connect(t, o) =>
                     /\ size' = size - 1
                     /\ Live' = Live
                     /\ queue' = queue
          /\ \A t \in BagToSet(tasks) :
                 Connect(t, "ok") =>
                     /\ size' = size
                     /\ Cardinality(Live') = Cardinality(Live) + 1
          /\ Cardinality(Live') < Cardinality(Live) =>
                 /\ Cardinality(Live') = Cardinality(Live) - 1
                 /\ size' = size - 1]_vars

\* One attempt has failed and one has succeeded: the counter is the number
\* of connections.
C18_Witness ==
    /\ recent_conn_errors[1] > 0
    /\ tasks = EmptyBag
    /\ Cardinality(Live) > 0
    /\ size = Cardinality(Live)

\* Positions of a call that has missed the idle queue.
MissedPcs ==
    {"wait_guard", "throw_queue", "failed_queue", "unwind_ok", "throw_exhaust",
     "failed_exhausted"} \cup WaitingPcs

\* C19 as stated: on a backend where no connect has failed, while no more
\* than min_size calls have been made and nothing has been released, every
\* call finds a connection in the idle queue: none misses it.
C19_PrewarmedWhenCreated ==
    (/\ BagCardinality(callers) <= settings.min_size
     /\ stats.error_total = 0
     /\ Count({"released"}) = 0) => Count(MissedPcs) = 0

\* C19, amended: when Create has returned, min_size Connect tasks have
\* been started and the open-connection counter counts them, but no
\* connection exists and the idle queue is empty until the first of them
\* has run: as long as no Connect task has run, at least min_size are in
\* flight, no call holds a connection and the counter is the number of
\* tasks in flight (plus the guards of calls inside the block of sg).
C19_PrewarmStarted ==
    stats.open_total = 0 =>
        /\ queue = <<>>
        /\ Live = {}
        /\ Succeeded = 0
        /\ CopiesIn(ConnectTask, tasks) >= settings.min_size
        /\ size = CopiesIn(ConnectTask, tasks) + Count({"check_size"})

\* The first call made after Create has missed the idle queue and sleeps,
\* no Connect task having run yet.
C19_Witness ==
    /\ stats.open_total = 0
    /\ BagCardinality(callers) = 1
    /\ Count({"sleeping"}) = 1

\* Connections in the idle queue.
Queued == {queue[i] : i \in 1..Len(queue)}

C14_OneCheckAtATime ==
    /\ [](/\ BagSum(checks, Running) <= 1
          /\ update_lock <=> Running # {})
    /\ [][\A ch \in BagToSet(checks) :
              (/\ ch.pc = "test"
               /\ update_lock
               /\ CopiesIn(ch, checks') < CopiesIn(ch, checks)) =>
                  /\ checks' = Remove(checks, ch)
                  /\ UNCHANGED <<topology, host_pools, pools, installed,
                                 update_lock>>]_vars

\* One call is about to swap the map while another has just been made.
C14_Witness ==
    /\ \E ch \in Running : ch.pc = "swap"
    /\ CopiesIn(NewCheck, checks) = 1

\* C15: the active map is always one that was installed whole, and a
\* lookup works on one installed map, loaded once: it resolves its pool as
\* that map's entry for its DSN, whatever swap happens meanwhile.
C15_LookupSeesOneMap ==
    /\ host_pools = installed[Len(installed)]
    /\ \A l \in BagToSet(lookups) :
           l.pc \in {"select", "get", "found"} =>
               /\ \E n \in l.epoch..Len(installed) : l.map = installed[n]
               /\ l.pc = "found" =>
                      l.dsn \in DOMAIN l.map /\ l.pool = l.map[l.dsn]

\* A lookup has resolved host A from the map of before the swap, which has
\* taken place since.
C15_Witness ==
    /\ Len(installed) = 2
    /\ \E l \in BagToSet(lookups) :
           /\ l.pc = "found"
           /\ l.dsn = "A"
           /\ l.map = installed[1]
           /\ l.map # host_pools

\* The last selections for the role, as many as it has candidates.
LastSelected == LastN(selected, Len(topology.slave))

DistinctHosts(seq) ==
    \A i, j \in 1..Len(seq) : i # j => seq[i].dsn # seq[j].dsn

\* The selections drew successive values of the cursor, none after a
\* wrap-around.
Successive(seq) ==
    \A i \in 1..(Len(seq) - 1) :
        seq[i + 1].ind = CursorNext(seq[i].ind) /\ seq[i + 1].ind # <<0, 0>>

\* C16 as stated: with the topology unchanged, any k consecutive
\* selections for a role with k candidates pick k different hosts.
C16_EachHostOnceInK ==
    Len(selected) >= Len(topology.slave) => DistinctHosts(LastSelected)

\* C16, amended: k consecutive selections for the role that drew
\* successive values of the cursor, with no wrap-around among them, pick
\* each of the k candidates once.
C16_EachHostOnceWhileSuccessive ==
    (Len(selected) >= Len(topology.slave) /\ Successive(LastSelected)) =>
        /\ DistinctHosts(LastSelected)
        /\ {LastSelected[i].dsn : i \in 1..Len(LastSelected)} = Range(topology.slave)

\* Three selections in a row for the role with its three candidates.
C16_Witness ==
    /\ Len(topology.slave) = 3
    /\ Len(selected) = 3
    /\ Successive(selected)

\* C17: after the refresh from {A, B} to {B, C}, a selection for the
\* replicas that starts after the swap finds a pool, that of B or of C; the
\* pool of B is the object it was before; a transaction holding a
\* connection has its pool alive, also the pool of A once the map has
\* dropped it.
C17_ReplicasAfterRefresh ==
    /\ \A l \in BagToSet(lookups) :
           /\ (l.role = "slave" /\ l.epoch >= 2) =>
                  /\ l.pc # "unavailable"
                  /\ l.pc \in {"get", "found", "bound"} => l.dsn \in {"B", "C"}
                  /\ l.pc \in {"found", "bound"} =>
                         pools[l.pool].dsn = l.dsn /\ l.pool = host_pools[l.dsn]
           /\ l.pc = "bound" =>
                  pools[l.pool].alive /\ pools[l.pool].handles > 0
    /\ Len(installed) >= 2 =>
           /\ DOMAIN host_pools = {"M", "B", "C"}
           /\ host_pools["B"] = installed[1]["B"]

\* After the swap a transaction still holds a connection of the pool of A
\* and another has got one from the pool of C.
C17_Witness ==
    /\ Len(installed) = 2
    /\ \E l \in BagToSet(lookups) : l.pc = "bound" /\ pools[l.pool].dsn = "A"
    /\ \E l \in BagToSet(lookups) :
           l.pc = "bound" /\ l.epoch = 2 /\ pools[l.pool].dsn = "C"

\* C23: the connections that exist (idle in the queue, handed out or
\* under cleanup) and the Connect tasks in flight are together never more
\* than max_size, also when several calls are at the capacity check
\* together.
C23_OpenAndOpeningWithinMax ==
    Cardinality(Live) + CopiesIn(ConnectTask, tasks) <= settings.max_size

\* Two calls are at the capacity check together, each with a value of the
\* counter that lets it start a Connect task.
C23_Witness ==
    /\ Count({"check_size"}) = 2
    /\ \A p \in BagToSet(callers) :
           p.pc = "check_size" => p.sg <= settings.max_size

\* Positions of a call inside the scope of wg: from its increment of
\* wait_count_ to its return or throw.
InGuardPcs == {"throw_queue", "unwind_ok", "throw_exhaust"} \cup WaitingPcs

C25_NoWakeUpLost ==
    ~(/\ queue # <<>>
      /\ tasks = EmptyBag
      /\ Count({"holding"}) = 0
      /\ Count({"sleeping"}) > 0
      /\ InProgress = Count({"sleeping"})
      /\ \A p \in BagToSet(callers) :
             p.pc = "sleeping" => ~p.woken /\ ~p.dl)

\* C22: a pool's SetDefaultCommandControl with the value already
\* published publishes nothing (the version stays), with another value it
\* publishes that value whole as the next version; the cluster's with the
\* cluster's current value ends at the comparison, with no swap and no
\* call of a pool's; every value published or given to a connection is one
\* of the values set, never fields of two; Acquire gives the connection it
\* returns the value published at that time.
C22_CommandControlPublishedWhole ==
    /\ [](/\ default_cmd_ctl.value \in CommandControls
          /\ cluster_cmd_ctl.value \in CommandControls
          /\ applied \in CommandControls)
    /\ [][/\ \A s \in BagToSet(setters) :
                 SetDefaultCommandControl(s) =>
                     IF s.value = default_cmd_ctl.value
                     THEN UNCHANGED default_cmd_ctl
                     ELSE default_cmd_ctl' =
                              Published(default_cmd_ctl.version + 1, s.value)
          /\ \A s \in BagToSet(setters) :
                 (ClusterCompare(s) /\ s.value = cluster_cmd_ctl.value) =>
                     /\ setters' = Replace(setters, s, [s EXCEPT !.pc = "done"])
                     /\ UNCHANGED <<cluster_cmd_ctl, default_cmd_ctl>>
          /\ default_cmd_ctl' # default_cmd_ctl =>
                 \E s \in BagToSet(setters) :
                     /\ s.pc = "commit"
                     /\ s.value # default_cmd_ctl.value
                     /\ default_cmd_ctl'.value = s.value
          /\ AcquireReturns => applied' = default_cmd_ctl.value]_vars

\* A second value was published by the pool, a later call with the same
\* value has ended without publishing, and a call holds a connection that
\* was given the second value.
C22_Witness ==
    /\ default_cmd_ctl = Published(1, CommandControl("n1", "s1"))
    /\ applied = default_cmd_ctl.value
    /\ Count({"holding"}) > 0
    /\ BagSum(setters, {s \in BagToSet(setters) :
                            s.pc = "done" /\ s.value = default_cmd_ctl.value}) >= 2

\* The Acquire call of the run has failed.
PingCallFailed ==
    \E p \in PingCalls :
        p.pc \in {"failed_deadline", "failed_queue", "failed_exhausted"}

\* C21: a run that finds wait_count above 0 ends at once and changes
\* nothing in the pool; otherwise it probes one connection at a time: it
\* makes an Acquire call only when the call before is over and its
\* connection released; after a probe it goes on if the connection had been
\* idle for kMaxIdleDuration or longer and ends if not; a Ping that throws
\* does not end the run: the run ends with an error only when its Acquire
\* call has failed.
C21_PingProbesWhileStale ==
    /\ [](/\ BagSum(callers, PingCalls) <= 1
          /\ pinger.pc \in {"check", "acquire"} \cup PingEndedPcs => PingCalls = {}
          /\ pinger.pc = "loop" =>
                 \A p \in PingCalls : p.pc = "released" /\ p.conn = 0)
    /\ [][/\ PingCheckWaiters =>
                 /\ pinger'.pc = IF wait_count > 0 THEN "skipped" ELSE "acquire"
                 /\ UNCHANGED poolVars
          /\ PingLoop =>
                 pinger'.pc = IF pinger.stale THEN "acquire" ELSE "done"
          /\ \A p \in PingCalls, stale \in BOOLEAN :
                 PingProbe(p, stale, "throws") =>
                     pinger'.pc = "probed" /\ pinger'.stale = stale
          /\ BagSum(callers', PingCalls') > BagSum(callers, PingCalls) =>
                 pinger.pc = "acquire"
          /\ (pinger'.pc = "failed" /\ pinger.pc # "failed") =>
                 PingCallFailed]_vars

\* A run has ended without error after two probes, the first of a stale
\* connection, the second of a fresh one whose Ping threw.
C21_Witness ==
    /\ pinger.pc = "done"
    /\ pinger.probes = 2
    /\ ~pinger.stale
    /\ pinger.ping = "throws"

\* A run inside its probe loop.
InProbeLoop == pinger.pc \in {"acquire", "acquiring", "probed", "loop"}

\* C26 as stated: every run ends, and its probe loop ends either after a
\* connection that was not stale or with an Acquire call failing once the
\* deadline of the run has passed.
C26_EndsOnFreshOrDeadline ==
    /\ [](PingRunning => <>(~PingRunning))
    /\ [][(InProbeLoop /\ ~InProbeLoop') =>
              \/ pinger'.pc = "done" /\ ~pinger.stale
              \/ pinger'.pc = "failed" /\ pinger'.dl]_vars

\* C26, amended: every run ends; its probe loop ends after a connection
\* that was not stale, or with an error of its Acquire call: the deadline of
\* the run has passed, or the call missed the idle queue while the wait
\* queue was full (queue-exceeded), which does not wait for the deadline.
C26_PingRunEnds ==
    /\ [](PingRunning => <>(~PingRunning))
    /\ [][(InProbeLoop /\ ~InProbeLoop') =>
              \/ pinger'.pc = "done" /\ ~pinger.stale
              \/ /\ pinger'.pc = "failed"
                 /\ \/ pinger'.dl
                    \/ \E p \in PingCalls : p.pc = "failed_queue"]_vars

\* A run has ended with the error of an Acquire call made after its
\* deadline, every connection it had probed having been stale.
C26_Witness ==
    /\ pinger.pc = "failed"
    /\ pinger.dl
    /\ pinger.stale
    /\ pinger.probes = MaxProbes
    /\ stats.error_timeout > 0

====
